---- MODULE Spec2Model ----
(***************************************************************************)
(* Model of the feature-flags service: the domain validation functions,    *)
(* the PostgreSQL flag store, the flag cache port and the flag service     *)
(* that orchestrates them.                                                 *)
(*                                                                         *)
(* A Go string is a sequence of byte values, a Go pointer is a sequence of *)
(* length 0 (nil) or 1 (the value pointed to), and a Go error is a record  *)
(* of the sentinel it wraps ("is") and its message ("msg").                *)
(***************************************************************************)
EXTENDS Integers, Sequences, FiniteSets, TLC

VARIABLES
    store,    \* the flags table of the PostgreSQL store: name -> row
    cache,    \* the flag cache: name -> FlagValue
    storeUp,  \* the database answers (otherwise every statement fails)
    cacheUp,  \* the cache backend answers
    now,      \* the wall clock read by time.Now()
    calls,    \* the invocation of the service each caller has in progress
    probe,    \* a validation function applied directly to an input
    hist      \* history, per name: the store writes and cache fills so far

vars == <<store, cache, storeUp, cacheUp, now, calls, probe, hist>>

-----------------------------------------------------------------------------
(* Bounds of the model                                                     *)

\* longest flag name enumerated character by character
MaxLen == 3

\* last instant of the wall clock
MaxTime == 1

\* how many of the most recent store writes of a name the history keeps in order
MaxHistory == 2

-----------------------------------------------------------------------------
(* Domain: types, values, errors                                           *)

Nil == <<>>

Ptr(v) == <<v>>

FlagTypeBoolean == "boolean"

FlagTypeNumeric == "numeric"

NoErr == [is |-> "nil", msg |-> ""]

ErrNotFound == [is |-> "ErrNotFound", msg |-> "flag not found"]

ErrAlreadyExists == [is |-> "ErrAlreadyExists", msg |-> "flag already exists"]

ErrTypeMismatch == [is |-> "ErrTypeMismatch", msg |-> "value type does not match flag type"]

ErrInvalidName == [is |-> "ErrInvalidName", msg |-> "invalid flag name"]

ErrInvalidValue == [is |-> "ErrInvalidValue", msg |-> "invalid flag value"]

\* fmt.Errorf("<msg>: %w", sentinel): a new error that wraps the sentinel
Errorf(msg, sentinel) == [is |-> sentinel.is, msg |-> msg]

FlagValue(b, n) == [Bool |-> b, Numeric |-> n]

IsZero(v) == v.Bool = Nil /\ v.Numeric = Nil

Type_NumericWins(v) ==
    IF v.Numeric # Nil THEN [panic |-> FALSE, flagType |-> FlagTypeNumeric]
    ELSE [panic |-> FALSE, flagType |-> FlagTypeBoolean]

\* FlagValue.Type: what the call returns, and whether it panicked instead
Type(v) ==
    IF v.Bool # Nil THEN [panic |-> FALSE, flagType |-> FlagTypeBoolean]
    ELSE [panic |-> FALSE, flagType |-> FlagTypeNumeric]

-----------------------------------------------------------------------------
(* Domain: validation                                                      *)

\* byte values of the characters the validation compares against
Ascii == [a |-> 97, z |-> 122, zero |-> 48, nine |-> 57, hyphen |-> 45]

MaxNameLength == 63

validateNotEmpty(name) ==
    IF Len(name) = 0
    THEN Errorf("name must not be empty", ErrInvalidName)
    ELSE NoErr

validateMaxLength(name) ==
    IF Len(name) > MaxNameLength
    THEN Errorf("name must not exceed 63 characters", ErrInvalidName)
    ELSE NoErr

validateStartsWithLetter(name) ==
    IF name[1] < Ascii.a \/ name[1] > Ascii.z
    THEN Errorf("name must start with a lowercase letter", ErrInvalidName)
    ELSE NoErr

validateNoLeadingTrailingHyphen_LeadingOnly(name) ==
    IF name[1] = Ascii.hyphen
    THEN Errorf("name must not start or end with a hyphen", ErrInvalidName)
    ELSE NoErr

validateNoLeadingTrailingHyphen(name) ==
    IF name[1] = Ascii.hyphen \/ name[Len(name)] = Ascii.hyphen
    THEN Errorf("name must not start or end with a hyphen", ErrInvalidName)
    ELSE NoErr

allowedChar(ch) ==
    \/ (ch >= Ascii.a /\ ch <= Ascii.z)
    \/ (ch >= Ascii.zero /\ ch <= Ascii.nine)
    \/ ch = Ascii.hyphen

RECURSIVE allowedCharsFrom(_, _)
\* the loop of validateAllowedChars, from position i on
allowedCharsFrom(name, i) ==
    IF i > Len(name) THEN NoErr
    ELSE IF ~allowedChar(name[i])
         THEN Errorf("name must contain only lowercase letters, digits, and hyphens",
                     ErrInvalidName)
         ELSE allowedCharsFrom(name, i + 1)

validateAllowedChars_Unchecked(name) == NoErr

validateAllowedChars(name) == allowedCharsFrom(name, 1)

ValidateFlagName(name) ==
    IF validateNotEmpty(name) # NoErr THEN validateNotEmpty(name)
    ELSE IF validateMaxLength(name) # NoErr THEN validateMaxLength(name)
    ELSE IF validateStartsWithLetter(name) # NoErr THEN validateStartsWithLetter(name)
    ELSE IF validateNoLeadingTrailingHyphen(name) # NoErr
         THEN validateNoLeadingTrailingHyphen(name)
    ELSE validateAllowedChars(name)

validateBooleanValue(flagValue) ==
    IF flagValue.Bool = Nil
    THEN Errorf("boolean flag requires a bool value", ErrTypeMismatch)
    ELSE NoErr

validateNumericValue_AcceptsAll(flagValue) == NoErr

validateNumericValue(flagValue) ==
    IF flagValue.Numeric = Nil
    THEN Errorf("numeric flag requires a numeric value", ErrTypeMismatch)
    ELSE NoErr

ValidateFlagValue(flagType, flagValue) ==
    CASE flagType = FlagTypeBoolean -> validateBooleanValue(flagValue)
      [] flagType = FlagTypeNumeric -> validateNumericValue(flagValue)
      [] OTHER -> NoErr

-----------------------------------------------------------------------------
(* PostgreSQL flag store: the flags table is a function from name to row   *)

\* an error of the driver that is none of the domain sentinels
ErrConn == [is |-> "conn", msg |-> "connection refused"]

\* pgconn.PgError with the given SQLSTATE
PgError(code) == [is |-> "PgError", msg |-> code]

UniqueViolation == "23505"

CheckViolation == "23514"

schema_TypeOnly(row) == row.type \in {"boolean", "numeric"}

\* the CHECK constraints of the schema: the type column and exactly_one_value
schema(row) ==
    /\ row.type \in {"boolean", "numeric"}
    /\ \/ (row.type = "boolean" /\ row.bool_value # Nil /\ row.numeric_value = Nil)
       \/ (row.type = "numeric" /\ row.numeric_value # Nil /\ row.bool_value = Nil)

insertRow_LosesValue(flag) ==
    [type |-> flag.Type, description |-> flag.Description,
     bool_value |-> Nil, numeric_value |-> IF flag.Value.Numeric # Nil THEN Ptr(0) ELSE Nil,
     created_at |-> flag.CreatedAt, updated_at |-> flag.UpdatedAt]

\* the column values of the INSERT statement
insertRow(flag) ==
    [type |-> flag.Type, description |-> flag.Description,
     bool_value |-> flag.Value.Bool, numeric_value |-> flag.Value.Numeric,
     created_at |-> flag.CreatedAt, updated_at |-> flag.UpdatedAt]

execInsert_NoPrimaryKey(st, up, flag) ==
    IF ~up THEN ErrConn
    ELSE IF ~schema(insertRow(flag)) THEN PgError(CheckViolation)
    ELSE NoErr

\* pool.Exec of a statement: the error the server answers with, or none
execInsert(st, up, flag) ==
    IF ~up THEN ErrConn
    ELSE IF ~schema(insertRow(flag)) THEN PgError(CheckViolation)
    ELSE IF flag.Name \in DOMAIN st THEN PgError(UniqueViolation)
    ELSE NoErr

Create_Upsert(st, up, flag) ==
    LET pgErr == execInsert(st, up, flag) IN
    IF pgErr = ErrConn \/ pgErr = PgError(CheckViolation)
    THEN [store |-> st, err |-> pgErr]
    ELSE [store |-> [n \in DOMAIN st \cup {flag.Name} |->
                        IF n = flag.Name THEN insertRow(flag) ELSE st[n]],
          err |-> NoErr]

Create(st, up, flag) ==
    LET pgErr == execInsert(st, up, flag) IN
    IF pgErr # NoErr
    THEN IF pgErr.is = "PgError" /\ pgErr.msg = UniqueViolation
         THEN [store |-> st, err |-> ErrAlreadyExists]
         ELSE [store |-> st, err |-> pgErr]
    ELSE [store |-> [n \in DOMAIN st \cup {flag.Name} |->
                        IF n = flag.Name THEN insertRow(flag) ELSE st[n]],
          err |-> NoErr]

scanFlag_NoRowsIsNil(st, up, rows) ==
    IF ~up THEN [flag |-> Nil, err |-> ErrConn]
    ELSE IF rows = {} THEN [flag |-> Nil, err |-> NoErr]
    ELSE LET name == CHOOSE n \in rows : TRUE IN
         [flag |-> Ptr([Name |-> name, Type |-> st[name].type,
                        Description |-> st[name].description,
                        Value |-> FlagValue(st[name].bool_value, st[name].numeric_value),
                        CreatedAt |-> st[name].created_at,
                        UpdatedAt |-> st[name].updated_at]),
          err |-> NoErr]

\* row.Scan into a domain.Flag; rows is the set of names the query matched
scanFlag(st, up, rows) ==
    IF ~up THEN [flag |-> Nil, err |-> ErrConn]
    ELSE IF rows = {} THEN [flag |-> Nil, err |-> Errorf(ErrNotFound.msg, ErrNotFound)]
    ELSE LET name == CHOOSE n \in rows : TRUE IN
         [flag |-> Ptr([Name |-> name, Type |-> st[name].type,
                        Description |-> st[name].description,
                        Value |-> FlagValue(st[name].bool_value, st[name].numeric_value),
                        CreatedAt |-> st[name].created_at,
                        UpdatedAt |-> st[name].updated_at]),
          err |-> NoErr]

GetByName(st, up, name) == scanFlag(st, up, {n \in DOMAIN st : n = name})

updateRow_TouchesCreatedAt(row, flagValue, t) ==
    [row EXCEPT !.bool_value = flagValue.Bool, !.numeric_value = flagValue.Numeric,
                !.updated_at = t, !.created_at = t]

\* the row after the UPDATE statement's SET clause
updateRow(row, flagValue, t) ==
    [row EXCEPT !.bool_value = flagValue.Bool, !.numeric_value = flagValue.Numeric,
                !.updated_at = t]

UpdateValue_NoWrite(st, up, t, name, flagValue) ==
    IF ~up THEN [store |-> st, flag |-> Nil, err |-> ErrConn]
    ELSE IF name \in DOMAIN st /\ ~schema(updateRow(st[name], flagValue, t))
    THEN [store |-> st, flag |-> Nil, err |-> PgError(CheckViolation)]
    ELSE LET res == scanFlag(st, up, {n \in DOMAIN st : n = name})
         IN  [store |-> st, flag |-> res.flag, err |-> res.err]

UpdateValue_NoWhere(st, up, t, name, flagValue) ==
    IF ~up THEN [store |-> st, flag |-> Nil, err |-> ErrConn]
    ELSE IF name \in DOMAIN st /\ ~schema(updateRow(st[name], flagValue, t))
    THEN [store |-> st, flag |-> Nil, err |-> PgError(CheckViolation)]
    ELSE LET st2 == [n \in DOMAIN st |-> updateRow(st[n], flagValue, t)]
             res == scanFlag(st2, up, {n \in DOMAIN st2 : n = name})
         IN  [store |-> st2, flag |-> res.flag, err |-> res.err]

UpdateValue(st, up, t, name, flagValue) ==
    IF ~up THEN [store |-> st, flag |-> Nil, err |-> ErrConn]
    ELSE IF name \in DOMAIN st /\ ~schema(updateRow(st[name], flagValue, t))
    THEN [store |-> st, flag |-> Nil, err |-> PgError(CheckViolation)]
    ELSE LET st2 == [n \in DOMAIN st |->
                        IF n = name THEN updateRow(st[n], flagValue, t) ELSE st[n]]
             res == scanFlag(st2, up, {n \in DOMAIN st2 : n = name})
         IN  [store |-> st2, flag |-> res.flag, err |-> res.err]

-----------------------------------------------------------------------------
(* Flag service                                                            *)

Procs == {"p1", "p2"}

\* the caller of the sequential specification
SeqProcs == {"p1"}

NoReq == [Name |-> <<>>, Type |-> "", Description |-> "", Value |-> FlagValue(Nil, Nil)]

\* an invocation: the handler's position, its request, its locals (flag), the
\* ValidateFlagValue calls and the port calls it has made, and what it returned
IdleCall ==
    [pc |-> "idle", op |-> "none", req |-> NoReq, flag |-> Nil,
     validated |-> <<>>, trace |-> <<>>, resp |-> Nil, err |-> NoErr]

parseFlagType_Any(raw) == [flagType |-> raw, err |-> NoErr]

parseFlagType(raw) ==
    IF raw = FlagTypeBoolean \/ raw = FlagTypeNumeric
    THEN [flagType |-> raw, err |-> NoErr]
    ELSE [flagType |-> "", err |-> Errorf("unknown flag type", ErrInvalidValue)]

flagToResponse_NoDescription(flag) ==
    [Name |-> flag.Name, Type |-> flag.Type, Description |-> "",
     Value |-> FlagValue(flag.Value.Bool, flag.Value.Numeric),
     CreatedAt |-> flag.CreatedAt, UpdatedAt |-> flag.UpdatedAt]

flagToResponse(flag) ==
    [Name |-> flag.Name, Type |-> flag.Type, Description |-> flag.Description,
     Value |-> FlagValue(flag.Value.Bool, flag.Value.Numeric),
     CreatedAt |-> flag.CreatedAt, UpdatedAt |-> flag.UpdatedAt]

\* return nil, err
Fail(c, e) == [c EXCEPT !.pc = "done", !.resp = Nil, !.err = e]

CreateFlagValidate_NoValueCheck(c, req, t) ==
    LET c0 == [c EXCEPT !.op = "CreateFlag", !.req = req]
        parsed == parseFlagType(req.Type)
        domainValue == FlagValue(req.Value.Bool, req.Value.Numeric)
    IN  IF ValidateFlagName(req.Name) # NoErr THEN Fail(c0, ValidateFlagName(req.Name))
        ELSE IF parsed.err # NoErr THEN Fail(c0, parsed.err)
        ELSE [c0 EXCEPT !.pc = "store.Create",
                        !.flag = Ptr([Name |-> req.Name, Type |-> parsed.flagType,
                                      Description |-> req.Description, Value |-> domainValue,
                                      CreatedAt |-> t, UpdatedAt |-> t])]

\* CreateFlag up to the call of store.Create: validation and time stamp
CreateFlagValidate(c, req, t) ==
    LET c0 == [c EXCEPT !.op = "CreateFlag", !.req = req]
        parsed == parseFlagType(req.Type)
        domainValue == FlagValue(req.Value.Bool, req.Value.Numeric)
        verr == ValidateFlagValue(parsed.flagType, domainValue)
        c1 == [c0 EXCEPT !.validated =
                   <<[flagType |-> parsed.flagType, flagValue |-> domainValue, err |-> verr]>>]
    IN  IF ValidateFlagName(req.Name) # NoErr THEN Fail(c0, ValidateFlagName(req.Name))
        ELSE IF parsed.err # NoErr THEN Fail(c0, parsed.err)
        ELSE IF verr # NoErr THEN Fail(c1, verr)
        ELSE [c1 EXCEPT !.pc = "store.Create",
                        !.flag = Ptr([Name |-> req.Name, Type |-> parsed.flagType,
                                      Description |-> req.Description, Value |-> domainValue,
                                      CreatedAt |-> t, UpdatedAt |-> t])]

CreateFlagReturn_OnlyAlreadyExists(c, res) ==
    LET c1 == [c EXCEPT !.trace = Append(@, [port |-> "store.Create",
                                             name |-> c.flag[1].Name, err |-> res.err])]
    IN  IF res.err.is = ErrAlreadyExists.is THEN Fail(c1, res.err)
        ELSE [c1 EXCEPT !.pc = "done", !.resp = Ptr(flagToResponse(c.flag[1])),
                        !.err = NoErr]

\* CreateFlag after store.Create returned res
CreateFlagReturn(c, res) ==
    LET c1 == [c EXCEPT !.trace = Append(@, [port |-> "store.Create",
                                             name |-> c.flag[1].Name, err |-> res.err])]
    IN  IF res.err # NoErr THEN Fail(c1, res.err)
        ELSE [c1 EXCEPT !.pc = "done", !.resp = Ptr(flagToResponse(c.flag[1])),
                        !.err = NoErr]

-----------------------------------------------------------------------------
(* Flag cache port: the cache is a function from name to FlagValue          *)

ErrCache == [is |-> "cache", msg |-> "cache unreachable"]

\* a miss whether the key is absent or the cache is unreachable
cacheGet(ch, up, name) ==
    IF ~up \/ name \notin DOMAIN ch
    THEN [value |-> Nil, err |-> ErrNotFound]
    ELSE [value |-> Ptr(ch[name]), err |-> NoErr]

cacheSet_Drops(ch, up, name, flagValue) ==
    IF ~up THEN [cache |-> ch, err |-> ErrCache] ELSE [cache |-> ch, err |-> NoErr]

cacheSet_IfAbsent(ch, up, name, flagValue) ==
    IF ~up THEN [cache |-> ch, err |-> ErrCache]
    ELSE [cache |-> [n \in DOMAIN ch \cup {name} |->
                        IF n \in DOMAIN ch THEN ch[n] ELSE flagValue],
          err |-> NoErr]

cacheSet(ch, up, name, flagValue) ==
    IF ~up THEN [cache |-> ch, err |-> ErrCache]
    ELSE [cache |-> [n \in DOMAIN ch \cup {name} |->
                        IF n = name THEN flagValue ELSE ch[n]],
          err |-> NoErr]

cacheDelete_ErrorsOnAbsent(ch, up, name) ==
    IF ~up THEN [cache |-> ch, err |-> ErrCache]
    ELSE IF name \notin DOMAIN ch THEN [cache |-> ch, err |-> ErrNotFound]
    ELSE [cache |-> [n \in DOMAIN ch \ {name} |-> ch[n]], err |-> NoErr]

cacheDelete(ch, up, name) ==
    IF ~up THEN [cache |-> ch, err |-> ErrCache]
    ELSE [cache |-> [n \in DOMAIN ch \ {name} |-> ch[n]], err |-> NoErr]

-----------------------------------------------------------------------------
(* UpdateFlagValue: the write-through protocol                             *)

\* an invocation after a port call: the call is added to its trace
Called(c, port, name, e) ==
    [c EXCEPT !.trace = Append(@, [port |-> port, name |-> name, err |-> e])]

UpdateFlagValueGet_CacheFirst(c, name, newValue, res) ==
    LET c0 == Called([c EXCEPT !.op = "UpdateFlagValue",
                               !.req = [NoReq EXCEPT !.Name = name, !.Value = newValue]],
                     "store.GetByName", name, res.err)
        verr == ValidateFlagValue(res.flag[1].Type, newValue)
    IN  IF res.err # NoErr THEN Fail(c0, res.err)
        ELSE IF verr # NoErr
             THEN Fail([c0 EXCEPT !.validated =
                           <<[flagType |-> res.flag[1].Type, flagValue |-> newValue,
                              err |-> verr]>>], verr)
        ELSE [c0 EXCEPT !.pc = "cache.Set", !.flag = res.flag,
                        !.validated = <<[flagType |-> res.flag[1].Type,
                                         flagValue |-> newValue, err |-> verr]>>]

\* steps 1 and 2: store.getByName returned res; validate against its type
UpdateFlagValueGet(c, name, newValue, res) ==
    LET c0 == Called([c EXCEPT !.op = "UpdateFlagValue",
                               !.req = [NoReq EXCEPT !.Name = name, !.Value = newValue]],
                     "store.GetByName", name, res.err)
        verr == ValidateFlagValue(res.flag[1].Type, newValue)
    IN  IF res.err # NoErr THEN Fail(c0, res.err)
        ELSE IF verr # NoErr
             THEN Fail([c0 EXCEPT !.validated =
                           <<[flagType |-> res.flag[1].Type, flagValue |-> newValue,
                              err |-> verr]>>], verr)
        ELSE [c0 EXCEPT !.pc = "store.UpdateValue", !.flag = res.flag,
                        !.validated = <<[flagType |-> res.flag[1].Type,
                                         flagValue |-> newValue, err |-> verr]>>]

UpdateFlagValueStored_IgnoresError(c, res) ==
    [Called(c, "store.UpdateValue", c.req.Name, res.err) EXCEPT
        !.pc = "cache.Set", !.flag = IF res.err # NoErr THEN c.flag ELSE res.flag]

\* step 3: store.updateValue returned res
UpdateFlagValueStored(c, res) ==
    LET c1 == Called(c, "store.UpdateValue", c.req.Name, res.err)
    IN  IF res.err # NoErr THEN Fail(c1, res.err)
        ELSE [c1 EXCEPT !.pc = "cache.Set", !.flag = res.flag]

UpdateFlagValueCached_Propagates(c, res) ==
    IF res.err # NoErr THEN Fail(Called(c, "cache.Set", c.req.Name, res.err), res.err)
    ELSE [Called(c, "cache.Set", c.req.Name, res.err) EXCEPT
             !.pc = "done", !.resp = Ptr(flagToResponse(c.flag[1])), !.err = NoErr]

\* steps 4 and 5: cache.set returned res, whose outcome is discarded
UpdateFlagValueCached(c, res) ==
    [Called(c, "cache.Set", c.req.Name, res.err) EXCEPT
        !.pc = "done", !.resp = Ptr(flagToResponse(c.flag[1])), !.err = NoErr]

-----------------------------------------------------------------------------
(* GetFlagValue: the read-through protocol                                 *)

GetFlagValueLookup_AlwaysStore(c, name, res) ==
    [Called([c EXCEPT !.op = "GetFlagValue", !.req = [NoReq EXCEPT !.Name = name]],
            "cache.Get", name, res.err) EXCEPT !.pc = "store.GetByName"]

\* step 1: cache.get returned res; a hit is returned at once
GetFlagValueLookup(c, name, res) ==
    LET c0 == Called([c EXCEPT !.op = "GetFlagValue",
                               !.req = [NoReq EXCEPT !.Name = name]],
                     "cache.Get", name, res.err)
    IN  IF res.err = NoErr
        THEN [c0 EXCEPT !.pc = "done", !.resp = res.value, !.err = NoErr]
        ELSE [c0 EXCEPT !.pc = "store.GetByName"]

GetFlagValueRead_HealsNotFound(c, res) ==
    [Called(c, "store.GetByName", c.req.Name, res.err) EXCEPT
        !.pc = "cache.Set",
        !.flag = IF res.err # NoErr
                 THEN Ptr([Name |-> c.req.Name, Value |-> FlagValue(Nil, Nil)])
                 ELSE res.flag]

GetFlagValueRead_NoHeal(c, res) ==
    LET c1 == Called(c, "store.GetByName", c.req.Name, res.err)
    IN  IF res.err # NoErr THEN Fail(c1, res.err)
        ELSE [c1 EXCEPT !.pc = "done", !.flag = res.flag,
                        !.resp = Ptr(res.flag[1].Value), !.err = NoErr]

\* step 2 after a miss: store.getByName returned res
GetFlagValueRead(c, res) ==
    LET c1 == Called(c, "store.GetByName", c.req.Name, res.err)
    IN  IF res.err # NoErr THEN Fail(c1, res.err)
        ELSE [c1 EXCEPT !.pc = "cache.Set", !.flag = res.flag]

\* step 2, found: cache.set returned res, whose outcome is discarded
GetFlagValueHealed(c, res) ==
    [Called(c, "cache.Set", c.req.Name, res.err) EXCEPT
        !.pc = "done", !.resp = Ptr(c.flag[1].Value), !.err = NoErr]

-----------------------------------------------------------------------------
(* Inputs                                                                  *)

\* "a", "b1", "" and "a-"
Names == {<<97>>, <<98, 49>>, <<>>, <<97, 45>>}

TypeTokens == {"boolean", "numeric", "string"}

Descriptions == {"", "d"}

Values ==
    {FlagValue(Nil, Nil), FlagValue(Ptr(TRUE), Nil), FlagValue(Ptr(FALSE), Nil),
     FlagValue(Nil, Ptr(0)), FlagValue(Nil, Ptr(1)), FlagValue(Ptr(TRUE), Ptr(1))}

CreateFlagRequests ==
    [Name : Names, Type : TypeTokens, Description : Descriptions, Value : Values]

\* a, z, 0, 9, -, A, @, `, {, /, :, _
Alphabet == {97, 122, 48, 57, 45, 65, 64, 96, 123, 47, 58, 95}

Strings(n) == UNION {[1..k -> Alphabet] : k \in 0..n}

\* names around the length limit: a head and a tail joined by a run of "a"
LongNames ==
    {h \o [i \in 1..(len - Len(h) - Len(t)) |-> Ascii.a] \o t :
        h \in Strings(1), t \in Strings(1),
        len \in (MaxNameLength - 1)..(MaxNameLength + 1)}

NameInputs == Strings(MaxLen) \cup LongNames

NoProbe ==
    [fn |-> "none", pc |-> "in", name |-> <<>>, flagType |-> "",
     flagValue |-> FlagValue(Nil, Nil), flag |-> Nil, out |-> Nil, err |-> NoErr]

Probes ==
    {[NoProbe EXCEPT !.fn = "ValidateFlagName", !.name = n] : n \in NameInputs}
    \cup {[NoProbe EXCEPT !.fn = "ValidateFlagValue", !.flagType = t, !.flagValue = v] :
             t \in TypeTokens, v \in Values}
    \cup {[NoProbe EXCEPT !.fn = "FlagValue.Type", !.flagValue = v] : v \in Values}

-----------------------------------------------------------------------------
(* History of the store writes and cache fills of each name                *)

AllNames == Names \cup {<<97>>, <<98, 49>>}

\* the invocation that made a store write or a cache fill
Caller(p, op) == [proc |-> p, op |-> op]

NoCaller == Caller("none", "none")

\* writes: the values written to the store, most recent first (the last
\* MaxHistory of them); all: every value written; writer: who wrote last;
\* setter: whose cache.set landed last; found: a GetFlagValue missed the cache
\* and found the flag; healed: the cache.set of such a GetFlagValue succeeded
NoHist ==
    [writes |-> <<>>, all |-> {}, writer |-> NoCaller, setter |-> NoCaller,
     found |-> FALSE, healed |-> FALSE]

Recent(s) == SubSeq(s, 1, IF Len(s) < MaxHistory THEN Len(s) ELSE MaxHistory)

\* a store write of value for name by who succeeded (err is nil)
Wrote(h, err, name, value, who) ==
    IF err # NoErr THEN h
    ELSE [h EXCEPT ![name] = [@ EXCEPT !.writes = Recent(<<value>> \o @),
                                       !.all = @ \cup {value},
                                       !.writer = who]]

\* a cache.set for name by who succeeded (err is nil)
Filled(h, err, name, who) ==
    IF err # NoErr THEN h
    ELSE [h EXCEPT ![name] = [@ EXCEPT !.setter = who,
                                       !.healed = @ \/ who.op = "GetFlagValue"]]

\* a GetFlagValue missed the cache and store.getByName found the flag
Found(h, err, name) ==
    IF err # NoErr THEN h ELSE [h EXCEPT ![name] = [@ EXCEPT !.found = TRUE]]

-----------------------------------------------------------------------------
(* State machine                                                           *)

Init ==
    /\ store = <<>>
    /\ cache = <<>>
    /\ storeUp = TRUE
    /\ cacheUp = TRUE
    /\ now = 0
    /\ calls = [p \in Procs |-> IdleCall]
    /\ probe = NoProbe
    /\ hist = [n \in AllNames |-> NoHist]

\* the wall clock advances
Tick ==
    /\ now < MaxTime
    /\ now' = now + 1
    /\ UNCHANGED <<store, cache, storeUp, cacheUp, calls, probe, hist>>

\* the database becomes unreachable, or reachable again
StoreFail ==
    /\ storeUp
    /\ storeUp' = FALSE
    /\ UNCHANGED <<store, cache, cacheUp, now, calls, probe, hist>>

StoreRecover ==
    /\ ~storeUp
    /\ storeUp' = TRUE
    /\ UNCHANGED <<store, cache, cacheUp, now, calls, probe, hist>>

CreateFlag(p, req) ==
    /\ calls[p].pc = "idle"
    /\ calls' = [calls EXCEPT ![p] = CreateFlagValidate(calls[p], req, now)]
    /\ UNCHANGED <<store, cache, storeUp, cacheUp, now, probe, hist>>

CreateFlagStore(p) ==
    /\ calls[p].pc = "store.Create"
    /\ LET res == Create(store, storeUp, calls[p].flag[1]) IN
       /\ store' = res.store
       /\ calls' = [calls EXCEPT ![p] = CreateFlagReturn(calls[p], res)]
       /\ hist' = Wrote(hist, res.err, calls[p].flag[1].Name, calls[p].flag[1].Value,
                        Caller(p, "CreateFlag"))
    /\ UNCHANGED <<cache, storeUp, cacheUp, now, probe>>

\* the caller takes the result; the next invocation may start
Return(p) ==
    /\ calls[p].pc = "done"
    /\ calls' = [calls EXCEPT ![p] = IdleCall]
    /\ UNCHANGED <<store, cache, storeUp, cacheUp, now, probe, hist>>

Next ==
    \/ Tick
    \/ StoreFail
    \/ StoreRecover
    \/ \E p \in SeqProcs, req \in CreateFlagRequests : CreateFlag(p, req)
    \/ \E p \in SeqProcs : CreateFlagStore(p)
    \/ \E p \in SeqProcs : Return(p)

Spec == Init /\ [][Next]_vars

\* the validation functions applied to inputs drawn in the initial state
InitPure ==
    /\ store = <<>>
    /\ cache = <<>>
    /\ storeUp = TRUE
    /\ cacheUp = TRUE
    /\ now = 0
    /\ calls = [p \in Procs |-> IdleCall]
    /\ probe \in Probes
    /\ hist = [n \in AllNames |-> NoHist]

ApplyValidateFlagName ==
    /\ probe.fn = "ValidateFlagName" /\ probe.pc = "in"
    /\ probe' = [probe EXCEPT !.pc = "out", !.err = ValidateFlagName(probe.name)]
    /\ UNCHANGED <<store, cache, storeUp, cacheUp, now, calls, hist>>

ApplyValidateFlagValue ==
    /\ probe.fn = "ValidateFlagValue" /\ probe.pc = "in"
    /\ probe' = [probe EXCEPT !.pc = "out",
                              !.err = ValidateFlagValue(probe.flagType, probe.flagValue)]
    /\ UNCHANGED <<store, cache, storeUp, cacheUp, now, calls, hist>>

ApplyType ==
    /\ probe.fn = "FlagValue.Type" /\ probe.pc = "in"
    /\ probe' = [probe EXCEPT !.pc = "out", !.out = Ptr(Type(probe.flagValue))]
    /\ UNCHANGED <<store, cache, storeUp, cacheUp, now, calls, hist>>

NextPure == ApplyValidateFlagName \/ ApplyValidateFlagValue \/ ApplyType

SpecPure == InitPure /\ [][NextPure]_vars

-----------------------------------------------------------------------------
(* The service with the cache and the write-through update                 *)

\* the names "a" and "b1"; only "a" is ever created
OrchNames == {<<97>>, <<98, 49>>}

\* requests for the name "a" that pass validation
OrchCreateRequests ==
    {req \in [Name : {<<97>>}, Type : {FlagTypeBoolean, FlagTypeNumeric},
              Description : {""}, Value : Values] :
        ValidateFlagValue(req.Type, req.Value) = NoErr}

\* the cache becomes unreachable, or reachable again
CacheFail ==
    /\ cacheUp
    /\ cacheUp' = FALSE
    /\ UNCHANGED <<store, cache, storeUp, now, calls, probe, hist>>

CacheRecover ==
    /\ ~cacheUp
    /\ cacheUp' = TRUE
    /\ UNCHANGED <<store, cache, storeUp, now, calls, probe, hist>>

UpdateFlagValue(p, name, newValue) ==
    /\ calls[p].pc = "idle"
    /\ calls' = [calls EXCEPT ![p] =
           UpdateFlagValueGet(calls[p], name, newValue, GetByName(store, storeUp, name))]
    /\ UNCHANGED <<store, cache, storeUp, cacheUp, now, probe, hist>>

UpdateFlagValueStore(p) ==
    /\ calls[p].pc = "store.UpdateValue"
    /\ LET res == UpdateValue(store, storeUp, now, calls[p].req.Name, calls[p].req.Value) IN
       /\ store' = res.store
       /\ calls' = [calls EXCEPT ![p] = UpdateFlagValueStored(calls[p], res)]
       /\ hist' = Wrote(hist, res.err, calls[p].req.Name, calls[p].req.Value,
                        Caller(p, "UpdateFlagValue"))
    /\ UNCHANGED <<cache, storeUp, cacheUp, now, probe>>

UpdateFlagValueCache(p) ==
    /\ calls[p].pc = "cache.Set" /\ calls[p].op = "UpdateFlagValue"
    /\ LET res == cacheSet(cache, cacheUp, calls[p].req.Name, calls[p].req.Value) IN
       /\ cache' = res.cache
       /\ calls' = [calls EXCEPT ![p] = UpdateFlagValueCached(calls[p], res)]
       /\ hist' = Filled(hist, res.err, calls[p].req.Name, Caller(p, "UpdateFlagValue"))
    /\ UNCHANGED <<store, storeUp, cacheUp, now, probe>>

GetFlagValue(p, name) ==
    /\ calls[p].pc = "idle"
    /\ calls' = [calls EXCEPT ![p] =
           GetFlagValueLookup(calls[p], name, cacheGet(cache, cacheUp, name))]
    /\ UNCHANGED <<store, cache, storeUp, cacheUp, now, probe, hist>>

GetFlagValueStore(p) ==
    /\ calls[p].pc = "store.GetByName" /\ calls[p].op = "GetFlagValue"
    /\ LET res == GetByName(store, storeUp, calls[p].req.Name) IN
       /\ calls' = [calls EXCEPT ![p] = GetFlagValueRead(calls[p], res)]
       /\ hist' = Found(hist, res.err, calls[p].req.Name)
    /\ UNCHANGED <<store, cache, storeUp, cacheUp, now, probe>>

GetFlagValueCache(p) ==
    /\ calls[p].pc = "cache.Set" /\ calls[p].op = "GetFlagValue"
    /\ LET res == cacheSet(cache, cacheUp, calls[p].req.Name, calls[p].flag[1].Value) IN
       /\ cache' = res.cache
       /\ calls' = [calls EXCEPT ![p] = GetFlagValueHealed(calls[p], res)]
       /\ hist' = Filled(hist, res.err, calls[p].req.Name, Caller(p, "GetFlagValue"))
    /\ UNCHANGED <<store, storeUp, cacheUp, now, probe>>

NextOrch ==
    \/ Tick
    \/ StoreFail
    \/ StoreRecover
    \/ CacheFail
    \/ CacheRecover
    \/ \E p \in SeqProcs, req \in OrchCreateRequests : CreateFlag(p, req)
    \/ \E p \in SeqProcs : CreateFlagStore(p)
    \/ \E p \in SeqProcs, name \in OrchNames, newValue \in Values :
           UpdateFlagValue(p, name, newValue)
    \/ \E p \in SeqProcs : UpdateFlagValueStore(p)
    \/ \E p \in SeqProcs : UpdateFlagValueCache(p)
    \/ \E p \in SeqProcs, name \in OrchNames : GetFlagValue(p, name)
    \/ \E p \in SeqProcs : GetFlagValueStore(p)
    \/ \E p \in SeqProcs : GetFlagValueCache(p)
    \/ \E p \in SeqProcs : Return(p)

SpecOrch == Init /\ [][NextOrch]_vars

-----------------------------------------------------------------------------
(* Concurrent callers of the service, store and cache reachable            *)

\* the name "a"
ConcNames == {<<97>>}

\* true and false
ConcValues == {FlagValue(Ptr(TRUE), Nil), FlagValue(Ptr(FALSE), Nil)}

\* requests for the boolean flag "a"
ConcCreateRequests ==
    {req \in OrchCreateRequests : req.Type = FlagTypeBoolean /\ req.Value \in ConcValues}

NextConc ==
    \/ Tick
    \/ \E p \in Procs, req \in ConcCreateRequests : CreateFlag(p, req)
    \/ \E p \in Procs : CreateFlagStore(p)
    \/ \E p \in Procs, name \in ConcNames, newValue \in ConcValues :
           UpdateFlagValue(p, name, newValue)
    \/ \E p \in Procs : UpdateFlagValueStore(p)
    \/ \E p \in Procs : UpdateFlagValueCache(p)
    \/ \E p \in Procs, name \in ConcNames : GetFlagValue(p, name)
    \/ \E p \in Procs : GetFlagValueStore(p)
    \/ \E p \in Procs : GetFlagValueCache(p)
    \/ \E p \in Procs : Return(p)

SpecConc == Init /\ [][NextConc]_vars

-----------------------------------------------------------------------------
(* One caller and a cache that can fail; every started invocation runs to   *)
(* its end                                                                  *)

NextLive ==
    \/ CacheFail
    \/ CacheRecover
    \/ \E p \in SeqProcs, req \in ConcCreateRequests : CreateFlag(p, req)
    \/ \E p \in SeqProcs : CreateFlagStore(p)
    \/ \E p \in SeqProcs, name \in ConcNames, newValue \in ConcValues :
           UpdateFlagValue(p, name, newValue)
    \/ \E p \in SeqProcs : UpdateFlagValueStore(p)
    \/ \E p \in SeqProcs : UpdateFlagValueCache(p)
    \/ \E p \in SeqProcs, name \in ConcNames : GetFlagValue(p, name)
    \/ \E p \in SeqProcs : GetFlagValueStore(p)
    \/ \E p \in SeqProcs : GetFlagValueCache(p)
    \/ \E p \in SeqProcs : Return(p)

\* the goroutine of an invocation is scheduled until the invocation returns
Progress ==
    \A p \in SeqProcs :
        /\ WF_vars(CreateFlagStore(p))
        /\ WF_vars(UpdateFlagValueStore(p))
        /\ WF_vars(UpdateFlagValueCache(p))
        /\ WF_vars(GetFlagValueStore(p))
        /\ WF_vars(GetFlagValueCache(p))
        /\ WF_vars(Return(p))

SpecLive == Init /\ [][NextLive]_vars /\ Progress

-----------------------------------------------------------------------------
(* Properties                                                              *)

Lower == 97..122

Digits == 48..57

Hyphen == {45}

\* the name shape rule: 1 to 63 characters of [a-z0-9-], a letter first, no
\* hyphen first or last
ValidShape(name) ==
    /\ Len(name) >= 1 /\ Len(name) <= 63
    /\ name[1] \in Lower
    /\ \A i \in 1..Len(name) : name[i] \in Lower \cup Digits \cup Hyphen
    /\ name[1] \notin Hyphen /\ name[Len(name)] \notin Hyphen

KnownTypes == {"boolean", "numeric"}

\* exactly the variant named by the type is populated
Matches(type, value) ==
    \/ (type = "boolean" /\ value.Bool # <<>> /\ value.Numeric = <<>>)
    \/ (type = "numeric" /\ value.Numeric # <<>> /\ value.Bool = <<>>)

ValidationErrors == {"ErrInvalidName", "ErrInvalidValue", "ErrTypeMismatch"}

\* C1: ValidateFlagName succeeds for every name of the valid shape and fails
\* with an error of kind InvalidName for every other name.
C1_ValidateFlagName ==
    (probe.fn = "ValidateFlagName" /\ probe.pc = "out") =>
        IF ValidShape(probe.name)
        THEN probe.err.is = "nil"
        ELSE probe.err.is = "ErrInvalidName"

\* a 63 character name with a digit in it was accepted
C1_Witness ==
    /\ probe.fn = "ValidateFlagName" /\ probe.pc = "out"
    /\ Len(probe.name) = 63 /\ probe.name[63] = 57
    /\ probe.err.is = "nil"

\* C2: for type boolean or numeric, ValidateFlagValue succeeds iff exactly the
\* variant named by the type is populated; otherwise (both variants populated
\* included) it fails with TypeMismatch.
C2_ValidateFlagValue ==
    (probe.fn = "ValidateFlagValue" /\ probe.pc = "out" /\ probe.flagType \in KnownTypes) =>
        IF Matches(probe.flagType, probe.flagValue)
        THEN probe.err.is = "nil"
        ELSE probe.err.is = "ErrTypeMismatch"

C4_ValidationOrder ==
    \A p \in Procs :
        (calls[p].op = "CreateFlag" /\ calls[p].pc = "done") =>
            IF ~ValidShape(calls[p].req.Name) THEN calls[p].err.is = "ErrInvalidName"
            ELSE IF calls[p].req.Type \notin KnownTypes
                 THEN calls[p].err.is = "ErrInvalidValue"
            ELSE (~Matches(calls[p].req.Type, calls[p].req.Value)) =>
                     calls[p].err.is = "ErrTypeMismatch"

\* the step in which the invocation of p returns
Returns(p) == calls[p].pc # "done" /\ calls'[p].pc = "done"

ValidRequest(req) ==
    ValidShape(req.Name) /\ req.Type \in KnownTypes /\ Matches(req.Type, req.Value)

\* C5: a CreateFlag call with a valid name, a known type, a matching value and
\* a name not yet in the (reachable) store succeeds, leaves the store holding
\* a flag for that name, and returns a record with the request's name, type,
\* description and value and with createdAt equal to updatedAt.
C5_CreateSucceeds ==
    [][\A p \in Procs :
        (/\ Returns(p) /\ calls'[p].op = "CreateFlag"
         /\ ValidRequest(calls'[p].req)
         /\ calls'[p].req.Name \notin DOMAIN store
         /\ storeUp)
        => (/\ calls'[p].err.is = "nil"
            /\ calls'[p].req.Name \in DOMAIN store'
            /\ calls'[p].resp # <<>>
            /\ calls'[p].resp[1].Name = calls'[p].req.Name
            /\ calls'[p].resp[1].Type = calls'[p].req.Type
            /\ calls'[p].resp[1].Description = calls'[p].req.Description
            /\ calls'[p].resp[1].Value = calls'[p].req.Value
            /\ calls'[p].resp[1].CreatedAt = calls'[p].resp[1].UpdatedAt)]_vars

\* a CreateFlag call with a description returned its record
C5_Witness ==
    \E p \in Procs :
        /\ calls[p].pc = "done" /\ calls[p].op = "CreateFlag"
        /\ calls[p].err.is = "nil" /\ calls[p].resp # <<>>
        /\ calls[p].req.Description = "d"
        /\ calls[p].req.Name \in DOMAIN store

\* C6 as stated: CreateFlag for a name that already exists in the store fails
\* with AlreadyExists, returns no response and leaves the existing record
\* unchanged.
C6_Original ==
    [][\A p \in Procs :
        (/\ Returns(p) /\ calls'[p].op = "CreateFlag"
         /\ calls'[p].req.Name \in DOMAIN store)
        => (/\ calls'[p].err.is = "ErrAlreadyExists"
            /\ calls'[p].resp = <<>>
            /\ store'[calls'[p].req.Name] = store[calls'[p].req.Name])]_vars

\* C6 as amended: CreateFlag for a name that already exists in the store fails,
\* returns no response and leaves the existing record unchanged; the error is
\* AlreadyExists when the request passes validation (known type, value with
\* exactly the variant of the type populated) and the store is reachable.
C6_Duplicate ==
    [][\A p \in Procs :
        (/\ Returns(p) /\ calls'[p].op = "CreateFlag"
         /\ calls'[p].req.Name \in DOMAIN store)
        => (/\ calls'[p].err.is # "nil"
            /\ calls'[p].resp = <<>>
            /\ calls'[p].req.Name \in DOMAIN store'
            /\ store'[calls'[p].req.Name] = store[calls'[p].req.Name]
            /\ (ValidRequest(calls'[p].req) /\ storeUp)
                   => calls'[p].err.is = "ErrAlreadyExists")]_vars

\* a CreateFlag call for a stored name returned AlreadyExists
C6_Witness ==
    \E p \in Procs :
        /\ calls[p].pc = "done" /\ calls[p].op = "CreateFlag"
        /\ calls[p].req.Name \in DOMAIN store
        /\ calls[p].err.is = "ErrAlreadyExists"

\* one of the validation steps of CreateFlag rejects the request
Rejected(req) ==
    \/ ValidateFlagName(req.Name) # NoErr
    \/ parseFlagType(req.Type).err # NoErr
    \/ ValidateFlagValue(parseFlagType(req.Type).flagType, req.Value) # NoErr

\* C7: a CreateFlag call that fails validation returns a validation error and
\* no response without calling the store or the cache, which stay unchanged.
C7_ValidationFailure ==
    [][\A p \in Procs :
        (/\ calls[p].pc = "idle" /\ calls'[p].pc # "idle"
         /\ calls'[p].op = "CreateFlag"
         /\ Rejected(calls'[p].req))
        => (/\ calls'[p].pc = "done"
            /\ calls'[p].err.is \in ValidationErrors
            /\ calls'[p].resp = <<>>
            /\ calls'[p].trace = <<>>
            /\ store' = store
            /\ cache' = cache)]_vars

\* a CreateFlag call for a stored name failed validation of its value
C7_Witness ==
    \E p \in Procs :
        /\ calls[p].pc = "done" /\ calls[p].op = "CreateFlag"
        /\ calls[p].err.is = "ErrTypeMismatch"
        /\ calls[p].trace = <<>>
        /\ calls[p].req.Name \in DOMAIN store

CacheSets(c) == {i \in 1..Len(c.trace) : c.trace[i].port = "cache.Set"}

CachePorts == {"cache.Get", "cache.Set", "cache.Delete"}

\* C8: every CreateFlag call whose store.Create succeeds attempts
\* cache.Set(name, value) exactly once, after the store write, and returns the
\* created flag.
C8_CreateSetsCache ==
    \A p \in Procs :
        (/\ calls[p].op = "CreateFlag" /\ calls[p].pc = "done"
         /\ \E i \in 1..Len(calls[p].trace) :
                calls[p].trace[i].port = "store.Create" /\ calls[p].trace[i].err.is = "nil")
        => (/\ calls[p].err.is = "nil" /\ calls[p].resp # <<>>
            /\ Cardinality(CacheSets(calls[p])) = 1
            /\ \A j \in CacheSets(calls[p]) :
                  /\ calls[p].trace[j].name = calls[p].req.Name
                  /\ \E i \in 1..(j - 1) :
                        /\ calls[p].trace[i].port = "store.Create"
                        /\ calls[p].trace[i].err.is = "nil")

\* C9: when store.Create fails inside CreateFlag, CreateFlag returns exactly
\* the error the store returned and no response, and performs no cache
\* operation.
C9_StoreErrorPropagates ==
    \A p \in Procs : \A i \in 1..Len(calls[p].trace) :
        (/\ calls[p].op = "CreateFlag" /\ calls[p].pc = "done"
         /\ calls[p].trace[i].port = "store.Create"
         /\ calls[p].trace[i].err.is # "nil")
        => (/\ calls[p].err = calls[p].trace[i].err
            /\ calls[p].resp = <<>>
            /\ \A j \in 1..Len(calls[p].trace) : calls[p].trace[j].port \notin CachePorts)

\* store.Create failed with an error of the driver and CreateFlag returned it
C9_Witness ==
    \E p \in Procs :
        /\ calls[p].op = "CreateFlag" /\ calls[p].pc = "done"
        /\ Len(calls[p].trace) = 1
        /\ calls[p].trace[1].port = "store.Create"
        /\ calls[p].trace[1].err.is = "conn"
        /\ calls[p].err.is = "conn"

StoreWrites(c) ==
    {i \in 1..Len(c.trace) :
        c.trace[i].port = "store.UpdateValue" /\ c.trace[i].err.is = "nil"}

StoreFailures(c) ==
    {i \in 1..Len(c.trace) :
        /\ c.trace[i].port \in {"store.GetByName", "store.UpdateValue"}
        /\ c.trace[i].err.is # "nil"}

\* C10: in every execution of UpdateFlagValue the cache is written for the
\* name only after store.updateValue of that call returned success; if
\* store.getByName or store.updateValue fails, the call writes nothing to the
\* cache and returns the store's error.
C10_WriteBeforeCache ==
    [][\A p \in Procs :
        (calls'[p].op = "UpdateFlagValue" /\ calls'[p] # calls[p]) =>
            /\ (cache' # cache) => StoreWrites(calls[p]) # {}
            /\ \A j \in CacheSets(calls'[p]) :
                  /\ calls'[p].trace[j].name = calls'[p].req.Name
                  /\ \E i \in StoreWrites(calls'[p]) : i < j
            /\ \A i \in StoreFailures(calls'[p]) :
                  calls'[p].pc = "done" =>
                      /\ CacheSets(calls'[p]) = {}
                      /\ calls'[p].err = calls'[p].trace[i].err
                      /\ calls'[p].resp = <<>>]_vars

\* an UpdateFlagValue call wrote the store, then the cache, and returned
C10_Witness ==
    \E p \in Procs :
        /\ calls[p].op = "UpdateFlagValue" /\ calls[p].pc = "done"
        /\ StoreWrites(calls[p]) = {2} /\ CacheSets(calls[p]) = {3}
        /\ calls[p].trace[3].err.is = "nil"
        /\ calls[p].req.Name \in DOMAIN cache
        /\ cache[calls[p].req.Name] = calls[p].req.Value

\* the variant the type names is not populated: the value is unset or has only
\* the other variant
Mismatches(type, value) ==
    \/ (type = "boolean" /\ value.Bool = <<>>)
    \/ (type = "numeric" /\ value.Numeric = <<>>)

\* the step in which p starts an invocation of op
Starts(p, op) == calls[p].pc = "idle" /\ calls'[p].pc # "idle" /\ calls'[p].op = op

StoredValue(name) == [Bool |-> store[name].bool_value, Numeric |-> store[name].numeric_value]

Result(c) == [pc |-> c.pc, resp |-> c.resp, err |-> c.err]

\* the step of p from position pc of an invocation of op
Steps(p, op, pc) == calls[p].op = op /\ calls[p].pc = pc /\ calls'[p] # calls[p]

\* the operations return what they return whether cache.set works or fails, a
\* GetFlagValue that finds the cache unreachable goes to the store and returns
\* the store's answer, and CreateFlag makes no cache call
CacheFailureAbsorbed(p) ==
    /\ Steps(p, "UpdateFlagValue", "cache.Set") =>
           /\ \A up \in BOOLEAN :
                 Result(calls'[p]) =
                     Result(UpdateFlagValueCached(calls[p],
                                cacheSet(cache, up, calls[p].req.Name, calls[p].req.Value)))
           /\ calls'[p].err.is = "nil" /\ calls'[p].resp # <<>>
           /\ calls'[p].resp[1].Value = calls[p].req.Value
           /\ StoredValue(calls[p].req.Name)' = calls[p].req.Value
    /\ Steps(p, "GetFlagValue", "cache.Set") =>
           /\ \A up \in BOOLEAN :
                 Result(calls'[p]) =
                     Result(GetFlagValueHealed(calls[p],
                                cacheSet(cache, up, calls[p].req.Name,
                                         calls[p].flag[1].Value)))
           /\ calls'[p].err.is = "nil"
           /\ calls'[p].resp = <<StoredValue(calls[p].req.Name)>>
    /\ (Starts(p, "GetFlagValue") /\ ~cacheUp) => calls'[p].pc = "store.GetByName"
    /\ Steps(p, "GetFlagValue", "store.GetByName") =>
           LET res == GetByName(store, storeUp, calls[p].req.Name) IN
           IF res.err # NoErr
           THEN Result(calls'[p]) = [pc |-> "done", resp |-> <<>>, err |-> res.err]
           ELSE calls'[p].pc = "cache.Set" /\ calls'[p].flag = res.flag
    /\ (calls'[p].op = "CreateFlag" /\ calls'[p] # calls[p]) =>
           /\ cache' = cache
           /\ \A i \in 1..Len(calls'[p].trace) : calls'[p].trace[i].port \notin CachePorts

\* a GetFlagValue served from the cache returns what the store would answer
HitIsStoreAnswer(p) ==
    (Starts(p, "GetFlagValue") /\ calls'[p].pc = "done") =>
        LET res == GetByName(store, storeUp, calls'[p].req.Name) IN
        /\ res.err = NoErr
        /\ calls'[p].resp = <<res.flag[1].Value>>

C13_HitNoStoreCall ==
    [][\A p \in Procs :
        (/\ Starts(p, "GetFlagValue")
         /\ cacheUp /\ calls'[p].req.Name \in DOMAIN cache)
        => (/\ calls'[p].pc = "done"
            /\ calls'[p].err.is = "nil"
            /\ calls'[p].resp = <<cache[calls'[p].req.Name]>>
            /\ Len(calls'[p].trace) = 1
            /\ calls'[p].trace[1].port = "cache.Get"
            /\ store' = store /\ cache' = cache)]_vars

\* GetFlagValue returned the cached value after cache.get alone
C13_Witness ==
    \E p \in Procs :
        /\ calls[p].op = "GetFlagValue" /\ calls[p].pc = "done"
        /\ Len(calls[p].trace) = 1 /\ calls[p].trace[1].err.is = "nil"
        /\ calls[p].req.Name \in DOMAIN cache
        /\ calls[p].resp = <<cache[calls[p].req.Name]>>

\* C14: when cache.get(name) misses (key absent or cache unavailable),
\* GetFlagValue calls store.getByName(name); if the store has no such flag it
\* returns NotFound and writes nothing to the cache; if the store has the flag
\* it attempts cache.set(name, storedValue) and returns the stored value
\* whether or not that set succeeded.
C14_MissReadsStore ==
    [][\A p \in Procs :
        /\ (Starts(p, "GetFlagValue") /\ (~cacheUp \/ calls'[p].req.Name \notin DOMAIN cache))
               => calls'[p].pc = "store.GetByName"
        /\ (Steps(p, "GetFlagValue", "store.GetByName") /\ storeUp) =>
               /\ calls'[p].trace[Len(calls'[p].trace)].port = "store.GetByName"
               /\ IF calls[p].req.Name \notin DOMAIN store
                  THEN /\ calls'[p].pc = "done"
                       /\ calls'[p].err.is = "ErrNotFound"
                       /\ calls'[p].resp = <<>>
                       /\ CacheSets(calls'[p]) = {}
                       /\ cache' = cache
                  ELSE calls'[p].pc = "cache.Set"
        /\ Steps(p, "GetFlagValue", "cache.Set") =>
               /\ calls'[p].trace[Len(calls'[p].trace)].port = "cache.Set"
               /\ calls'[p].trace[Len(calls'[p].trace)].name = calls[p].req.Name
               /\ cacheUp => cache'[calls[p].req.Name] = StoredValue(calls[p].req.Name)
               /\ calls'[p].pc = "done"
               /\ calls'[p].err.is = "nil"
               /\ calls'[p].resp = <<StoredValue(calls[p].req.Name)>>]_vars

\* GetFlagValue missed, found the flag, failed to set the cache and returned
\* the stored value
C14_Witness ==
    \E p \in Procs :
        /\ calls[p].op = "GetFlagValue" /\ calls[p].pc = "done"
        /\ Len(calls[p].trace) = 3
        /\ calls[p].trace[2].port = "store.GetByName" /\ calls[p].trace[2].err.is = "nil"
        /\ calls[p].trace[3].port = "cache.Set" /\ calls[p].trace[3].err.is = "cache"
        /\ calls[p].err.is = "nil"
        /\ calls[p].resp = <<StoredValue(calls[p].req.Name)>>

\* the invocation p starts is served from the cache: cache.get is its only call
ServedFromCache(p) ==
    /\ calls'[p].pc = "done" /\ calls'[p].err.is = "nil"
    /\ Len(calls'[p].trace) = 1 /\ calls'[p].trace[1].port = "cache.Get"

C16_TypeValueCoherence ==
    \A n \in DOMAIN store : Matches(store[n].type, StoredValue(n))

\* the store holds a flag, and it refused an UpdateFlagValue whose value has
\* both variants populated
C16_Witness ==
    \E p \in Procs :
        /\ calls[p].op = "UpdateFlagValue" /\ calls[p].pc = "done"
        /\ calls[p].req.Value = [Bool |-> <<TRUE>>, Numeric |-> <<1>>]
        /\ calls[p].err.is = "PgError"
        /\ calls[p].req.Name \in DOMAIN store
        /\ Matches(store[calls[p].req.Name].type, StoredValue(calls[p].req.Name))

\* C17: once a flag exists it stays, and no step changes its type or createdAt
\* (nor its description); its value and updatedAt change only in the
\* store.updateValue step of an UpdateFlagValue for that name, and a CreateFlag
\* whose store.create fails changes nothing.
C17_Immutable ==
    [][/\ \A n \in DOMAIN store :
             /\ n \in DOMAIN store'
             /\ store'[n].type = store[n].type
             /\ store'[n].created_at = store[n].created_at
             /\ store'[n].description = store[n].description
             /\ store'[n] # store[n] =>
                    \E p \in Procs :
                        /\ Steps(p, "UpdateFlagValue", "store.UpdateValue")
                        /\ calls[p].req.Name = n
                        /\ StoredValue(n)' = calls[p].req.Value
                        /\ store'[n].updated_at = now
       /\ \A p \in Procs :
             (Steps(p, "CreateFlag", "store.Create") /\ calls'[p].err.is # "nil")
                 => store' = store]_vars

\* a flag created at instant 0 holds a value written at instant 1
C17_Witness ==
    \E n \in DOMAIN store :
        /\ store[n].created_at = 0 /\ store[n].updated_at = 1
        /\ hist[n].writer.op = "UpdateFlagValue"
        /\ Len(hist[n].writes) = 2 /\ hist[n].writes[1] # hist[n].writes[2]

\* every UpdateFlagValue call for name n has completed
Quiescent(n) ==
    \A p \in Procs :
        (calls[p].op = "UpdateFlagValue" /\ calls[p].req.Name = n) => calls[p].pc = "done"

\* the cache entry of n was last set by an UpdateFlagValue call
SetByUpdate(n) == n \in DOMAIN cache /\ hist[n].setter.op = "UpdateFlagValue"

NoWrite == \A p \in Procs : calls[p].op \notin {"UpdateFlagValue", "CreateFlag"}

\* store and cache are reachable
Reachable == storeUp /\ cacheUp

\* a GetFlagValue call for n has returned
ReadReturned(n) ==
    \E p \in Procs :
        calls[p].op = "GetFlagValue" /\ calls[p].pc = "done" /\ calls[p].req.Name = n

\* store and cache hold the same value for n, and every returned GetFlagValue
\* for n returned it
Fresh(n) ==
    /\ n \in DOMAIN cache /\ cache[n] = StoredValue(n)
    /\ \A p \in Procs :
          (calls[p].op = "GetFlagValue" /\ calls[p].pc = "done" /\ calls[p].req.Name = n)
              => calls[p].resp = <<StoredValue(n)>>

\* every returned GetFlagValue for n was served from the cache entry of n
Cached(n) ==
    /\ n \in DOMAIN cache
    /\ \A p \in Procs :
          (calls[p].op = "GetFlagValue" /\ calls[p].pc = "done" /\ calls[p].req.Name = n)
              => (Len(calls[p].trace) = 1 /\ calls[p].resp = <<cache[n]>>)

C25_TypeOfZeroPanics ==
    (/\ probe.fn = "FlagValue.Type" /\ probe.pc = "out"
     /\ probe.flagValue = [Bool |-> <<>>, Numeric |-> <<>>])
        => probe.out[1].panic

\* C26: FlagValue.Type() returns boolean whenever Bool is populated, including
\* when both Bool and Numeric are populated, and returns numeric when only
\* Numeric is populated.
C26_TypeBooleanWins ==
    (probe.fn = "FlagValue.Type" /\ probe.pc = "out") =>
        /\ probe.flagValue.Bool # <<>> =>
               (~probe.out[1].panic /\ probe.out[1].flagType = "boolean")
        /\ (probe.flagValue.Bool = <<>> /\ probe.flagValue.Numeric # <<>>) =>
               (~probe.out[1].panic /\ probe.out[1].flagType = "numeric")

\* Type() of a value with both variants populated returned boolean
C26_Witness ==
    /\ probe.fn = "FlagValue.Type" /\ probe.pc = "out"
    /\ probe.flagValue = [Bool |-> <<TRUE>>, Numeric |-> <<1>>]
    /\ probe.out = <<[panic |-> FALSE, flagType |-> "boolean"]>>

\* the pattern ^[a-z][a-z0-9\-]{0,62}$
MatchesPattern(name) ==
    /\ Len(name) >= 1
    /\ name[1] \in Lower
    /\ Len(name) - 1 <= 62
    /\ \A i \in 2..Len(name) : name[i] \in Lower \cup Digits \cup Hyphen

\* the pattern ^[a-z]([a-z0-9\-]{0,61}[a-z0-9])?$
MatchesPatternNoTrailingHyphen(name) ==
    /\ Len(name) >= 1
    /\ name[1] \in Lower
    /\ Len(name) > 1 =>
           /\ Len(name) - 2 <= 61
           /\ \A i \in 2..(Len(name) - 1) : name[i] \in Lower \cup Digits \cup Hyphen
           /\ name[Len(name)] \in Lower \cup Digits

-----------------------------------------------------------------------------
(* The store adapter called directly, as its integration tests do           *)

StoreNames == {<<97>>, <<98, 49>>}

\* the values of the store calls: unset, true, false, 1.0, and both populated
StoreValues ==
    {FlagValue(Nil, Nil), FlagValue(Ptr(TRUE), Nil), FlagValue(Ptr(FALSE), Nil),
     FlagValue(Nil, Ptr(1)), FlagValue(Ptr(TRUE), Ptr(1))}

\* the flags a caller hands to Create: both timestamps are the call's time;
\* "a" is described and of either type, "b1" is an undescribed boolean
StoreFlags(t) ==
    {[Name |-> <<97>>, Type |-> ty, Description |-> "d", Value |-> v,
      CreatedAt |-> t, UpdatedAt |-> t] :
        ty \in {FlagTypeBoolean, FlagTypeNumeric}, v \in StoreValues}
    \cup {[Name |-> <<98, 49>>, Type |-> FlagTypeBoolean, Description |-> "",
           Value |-> v, CreatedAt |-> t, UpdatedAt |-> t] : v \in StoreValues}

StoreCreate(flag) ==
    LET res == Create(store, storeUp, flag) IN
    /\ store' = res.store
    /\ probe' = [NoProbe EXCEPT !.fn = "store.Create", !.pc = "out",
                                !.name = flag.Name, !.flag = Ptr(flag),
                                !.err = res.err]
    /\ UNCHANGED <<cache, storeUp, cacheUp, now, calls, hist>>

StoreGetByName(name) ==
    LET res == GetByName(store, storeUp, name) IN
    /\ probe' = [NoProbe EXCEPT !.fn = "store.GetByName", !.pc = "out",
                                !.name = name, !.out = res.flag, !.err = res.err]
    /\ UNCHANGED <<store, cache, storeUp, cacheUp, now, calls, hist>>

StoreUpdateValue(name, flagValue) ==
    LET res == UpdateValue(store, storeUp, now, name, flagValue) IN
    /\ store' = res.store
    /\ probe' = [NoProbe EXCEPT !.fn = "store.UpdateValue", !.pc = "out",
                                !.name = name, !.flagValue = flagValue,
                                !.out = res.flag, !.err = res.err]
    /\ UNCHANGED <<cache, storeUp, cacheUp, now, calls, hist>>

NextStore ==
    \/ Tick
    \/ StoreFail
    \/ StoreRecover
    \/ \E flag \in StoreFlags(now) : StoreCreate(flag)
    \/ \E name \in StoreNames : StoreGetByName(name)
    \/ \E name \in StoreNames, flagValue \in StoreValues :
          StoreUpdateValue(name, flagValue)

SpecStore == Init /\ [][NextStore]_vars

\* the step is a call of the store method fn
StoreCall(fn) == probe'.fn = fn /\ <<store, probe>>' # <<store, probe>>

\* the flag a table row reads back as
RowFlag(name, row) ==
    [Name |-> name, Type |-> row.type, Description |-> row.description,
     Value |-> [Bool |-> row.bool_value, Numeric |-> row.numeric_value],
     CreatedAt |-> row.created_at, UpdatedAt |-> row.updated_at]

\* C21: store.UpdateValue(name, value) on an existing flag, with a value of the
\* flag's type and the database reachable, overwrites the value with the given
\* one, sets updatedAt to the time of the call, which is not earlier than the
\* previous updatedAt, leaves every other column and row alone and returns the
\* post-update flag; with the database reachable it returns NotFound exactly
\* when no flag with that name exists, and then it changes nothing.
C21_UpdateValueContract ==
    [][(StoreCall("store.UpdateValue") /\ storeUp) =>
         LET n == probe'.name
             v == probe'.flagValue
         IN  /\ probe'.err.is = "ErrNotFound" <=> n \notin DOMAIN store
             /\ n \notin DOMAIN store => (store' = store /\ probe'.out = <<>>)
             /\ (n \in DOMAIN store /\ Matches(store[n].type, v)) =>
                   /\ probe'.err = NoErr
                   /\ DOMAIN store' = DOMAIN store
                   /\ \A m \in DOMAIN store \ {n} : store'[m] = store[m]
                   /\ store'[n].bool_value = v.Bool
                   /\ store'[n].numeric_value = v.Numeric
                   /\ store'[n].updated_at = now
                   /\ store'[n].updated_at >= store[n].updated_at
                   /\ store'[n].type = store[n].type
                   /\ store'[n].description = store[n].description
                   /\ store'[n].created_at = store[n].created_at
                   /\ probe'.out = <<RowFlag(n, store'[n])>>
      ]_vars

\* UpdateValue returned a flag whose value differs from the one created and
\* whose updatedAt is later than its createdAt, and the row holds that flag
C21_Witness ==
    /\ probe.fn = "store.UpdateValue" /\ probe.err = NoErr
    /\ probe.out # <<>>
    /\ probe.name \in DOMAIN store
    /\ probe.out[1] = RowFlag(probe.name, store[probe.name])
    /\ probe.out[1].Value = [Bool |-> <<FALSE>>, Numeric |-> <<>>]
    /\ probe.out[1].UpdatedAt > probe.out[1].CreatedAt

\* C22: store.UpdateValue returns ErrTypeMismatch, leaving the row unchanged,
\* when the supplied value's populated variant does not match the stored
\* flag's declared type.
C22_UpdateValueTypeMismatch ==
    [][(/\ StoreCall("store.UpdateValue") /\ storeUp
        /\ probe'.name \in DOMAIN store
        /\ Mismatches(store[probe'.name].type, probe'.flagValue)) =>
           (probe'.err.is = "ErrTypeMismatch" /\ store' = store)
      ]_vars

\* C23: a flag written by store.Create and read back by store.GetByName has
\* the same name, type, description and value as the flag given to Create,
\* with the same variant populated and the other absent, for boolean and for
\* numeric flags (the GetByName call follows the successful Create call of
\* the same name, and the database is reachable).
C23_CreateGetRoundTrip ==
    [][(/\ probe.fn = "store.Create" /\ probe.err = NoErr
        /\ StoreCall("store.GetByName") /\ storeUp
        /\ probe'.name = probe.name) =>
           /\ probe'.err = NoErr
           /\ probe'.out # <<>>
           /\ probe'.out[1].Name = probe.flag[1].Name
           /\ probe'.out[1].Type = probe.flag[1].Type
           /\ probe'.out[1].Description = probe.flag[1].Description
           /\ probe'.out[1].Value = probe.flag[1].Value
           /\ probe.flag[1].Type = "boolean" =>
                 (probe'.out[1].Value.Bool # <<>> /\ probe'.out[1].Value.Numeric = <<>>)
           /\ probe.flag[1].Type = "numeric" =>
                 (probe'.out[1].Value.Numeric # <<>> /\ probe'.out[1].Value.Bool = <<>>)
      ]_vars

\* a numeric flag with a description was read back
C23_Witness ==
    /\ probe.fn = "store.GetByName" /\ probe.err = NoErr
    /\ probe.out # <<>>
    /\ probe.out[1].Type = "numeric"
    /\ probe.out[1].Description = "d"
    /\ probe.out[1].Value = [Bool |-> <<>>, Numeric |-> <<1>>]
    /\ probe.out[1].CreatedAt = probe.out[1].UpdatedAt

-----------------------------------------------------------------------------
(* The cache port called directly                                           *)

CacheSetCall(name, flagValue) ==
    LET res == cacheSet(cache, cacheUp, name, flagValue) IN
    /\ cache' = res.cache
    /\ probe' = [NoProbe EXCEPT !.fn = "cache.Set", !.pc = "out", !.name = name,
                                !.flagValue = flagValue, !.err = res.err]
    /\ UNCHANGED <<store, storeUp, cacheUp, now, calls, hist>>

CacheGetCall(name) ==
    LET res == cacheGet(cache, cacheUp, name) IN
    /\ probe' = [NoProbe EXCEPT !.fn = "cache.Get", !.pc = "out", !.name = name,
                                !.out = res.value, !.err = res.err]
    /\ UNCHANGED <<store, cache, storeUp, cacheUp, now, calls, hist>>

CacheDeleteCall(name) ==
    LET res == cacheDelete(cache, cacheUp, name) IN
    /\ cache' = res.cache
    /\ probe' = [NoProbe EXCEPT !.fn = "cache.Delete", !.pc = "out", !.name = name,
                                !.err = res.err]
    /\ UNCHANGED <<store, storeUp, cacheUp, now, calls, hist>>

NextCache ==
    \/ CacheFail
    \/ CacheRecover
    \/ \E name \in StoreNames, flagValue \in StoreValues : CacheSetCall(name, flagValue)
    \/ \E name \in StoreNames : CacheGetCall(name)
    \/ \E name \in StoreNames : CacheDeleteCall(name)

SpecCache == Init /\ [][NextCache]_vars

\* the step is a call of the cache method fn
CacheCall(fn) == probe'.fn = fn /\ <<cache, probe>>' # <<cache, probe>>

\* C24: cache.delete is idempotent: with the cache reachable, deleting a name
\* returns no error whether or not the name is cached, deleting a name that is
\* not cached leaves the cache as it is, and deleting the same name again has
\* the effect of deleting it once, on the cache and on every later get.
C24_DeleteIdempotent ==
    [][(CacheCall("cache.Delete") /\ cacheUp) =>
         LET n == probe'.name
             again == cacheDelete(cache', cacheUp', n)
         IN  /\ probe'.err = NoErr
             /\ n \notin DOMAIN cache'
             /\ \A m \in DOMAIN cache \ {n} : m \in DOMAIN cache' /\ cache'[m] = cache[m]
             /\ n \notin DOMAIN cache => cache' = cache
             /\ again.err = NoErr
             /\ again.cache = cache'
             /\ \A m \in StoreNames :
                   cacheGet(again.cache, cacheUp', m) = cacheGet(cache', cacheUp', m)
             /\ cacheGet(cache', cacheUp', n).err.is = "ErrNotFound"
      ]_vars

\* a delete returned without error, the name is not cached, another name is
C24_Witness ==
    /\ probe.fn = "cache.Delete" /\ probe.err = NoErr
    /\ probe.name \notin DOMAIN cache
    /\ cache # <<>>

\* C28: in every reachable state, under any interleaving of CreateFlag,
\* GetFlagValue and UpdateFlagValue, a name that is cached has been persisted
\* and its cached value is a value that an earlier successful store write
\* stored for that name.
C28_CacheHoldsPersistedValues ==
    \A n \in DOMAIN cache :
        /\ n \in DOMAIN store
        /\ hist[n].writes # <<>>
        /\ \E v \in hist[n].all : cache[n] = v

\* the cache holds an earlier value of the flag, not the one now stored
C28_Witness ==
    \E n \in DOMAIN cache :
        /\ n \in DOMAIN store
        /\ cache[n] \in hist[n].all
        /\ cache[n] # StoredValue(n)

\* C30: when CreateFlag calls with valid requests for the same not yet
\* existing name run concurrently, the call whose store.Create arrives first
\* succeeds and the stored record is the flag of that call; every call that
\* arrives after it fails with AlreadyExists, returns no response and leaves
\* the record as it is; so exactly one of the calls succeeds.
C30_ConcurrentCreate ==
    [][\A p \in Procs :
         Steps(p, "CreateFlag", "store.Create") =>
           LET f == calls[p].flag[1] IN
           /\ IF f.Name \notin DOMAIN store
              THEN /\ calls'[p].err = NoErr
                   /\ calls'[p].resp = <<flagToResponse(f)>>
                   /\ f.Name \in DOMAIN store'
                   /\ RowFlag(f.Name, store'[f.Name]) = f
              ELSE /\ calls'[p].err.is = "ErrAlreadyExists"
                   /\ calls'[p].resp = <<>>
                   /\ store' = store
           /\ \A q \in Procs \ {p} :
                 (/\ calls[q].op = "CreateFlag" /\ calls[q].req.Name = f.Name
                  /\ calls[q].pc = "store.Create") =>
                     Create(store', storeUp', calls[q].flag[1]) =
                         [store |-> store', err |-> ErrAlreadyExists]
           /\ \A q \in Procs \ {p} :
                 (/\ calls'[q].op = "CreateFlag" /\ calls'[q].req.Name = f.Name
                  /\ calls'[q].pc = "done") =>
                     ~(calls'[p].err = NoErr /\ calls'[q].err = NoErr)
      ]_vars

\* two overlapping calls have completed: p2 was stamped before p1, p1 created
\* the flag and p2 was refused; the record is p1's
C30_Witness ==
    /\ calls["p1"].op = "CreateFlag" /\ calls["p1"].pc = "done"
    /\ calls["p2"].op = "CreateFlag" /\ calls["p2"].pc = "done"
    /\ calls["p1"].req.Name = calls["p2"].req.Name
    /\ calls["p1"].req.Value # calls["p2"].req.Value
    /\ calls["p2"].flag[1].CreatedAt < calls["p1"].flag[1].CreatedAt
    /\ calls["p1"].err = NoErr
    /\ calls["p2"].err.is = "ErrAlreadyExists"
    /\ RowFlag(calls["p1"].req.Name, store[calls["p1"].req.Name]) = calls["p1"].flag[1]

-----------------------------------------------------------------------------
(* Two callers and two flag names                                           *)

\* "a" and "b1"
TwoNames == {<<97>>, <<98, 49>>}

\* the flag each caller works on: p1 on "a", p2 on "b1"
NameOf == [p \in Procs |-> IF p = "p1" THEN <<97>> ELSE <<98, 49>>]

\* requests for the boolean flag of that name
TwoNamesCreateRequests(name) ==
    [Name : {name}, Type : {FlagTypeBoolean}, Description : {""}, Value : ConcValues]

NextNames ==
    \/ \E p \in Procs : \E req \in TwoNamesCreateRequests(NameOf[p]) : CreateFlag(p, req)
    \/ \E p \in Procs : CreateFlagStore(p)
    \/ \E p \in Procs, newValue \in ConcValues : UpdateFlagValue(p, NameOf[p], newValue)
    \/ \E p \in Procs : UpdateFlagValueStore(p)
    \/ \E p \in Procs : UpdateFlagValueCache(p)
    \/ \E p \in Procs : GetFlagValue(p, NameOf[p])
    \/ \E p \in Procs : GetFlagValueStore(p)
    \/ \E p \in Procs : GetFlagValueCache(p)
    \/ \E p \in Procs : Return(p)

SpecNames == Init /\ [][NextNames]_vars


\* f without the entries of the names other than n
Only(f, n) == [m \in DOMAIN f \cap {n} |-> f[m]]

\* what the step of an invocation c to c2 yields when the store is st and the
\* cache is ch
Outcome(c, c2, st, ch) ==
    IF c.pc = "idle" THEN
        IF c2.op = "CreateFlag" THEN CreateFlagValidate(c, c2.req, now)
        ELSE IF c2.op = "UpdateFlagValue"
        THEN UpdateFlagValueGet(c, c2.req.Name, c2.req.Value,
                                GetByName(st, storeUp, c2.req.Name))
        ELSE GetFlagValueLookup(c, c2.req.Name, cacheGet(ch, cacheUp, c2.req.Name))
    ELSE IF c.pc = "store.Create"
    THEN CreateFlagReturn(c, Create(st, storeUp, c.flag[1]))
    ELSE IF c.pc = "store.UpdateValue"
    THEN UpdateFlagValueStored(c, UpdateValue(st, storeUp, now, c.req.Name, c.req.Value))
    ELSE IF c.pc = "store.GetByName"
    THEN GetFlagValueRead(c, GetByName(st, storeUp, c.req.Name))
    ELSE IF c.pc = "cache.Set" /\ c.op = "UpdateFlagValue"
    THEN UpdateFlagValueCached(c, cacheSet(ch, cacheUp, c.req.Name, c.req.Value))
    ELSE IF c.pc = "cache.Set"
    THEN GetFlagValueHealed(c, cacheSet(ch, cacheUp, c.req.Name, c.flag[1].Value))
    ELSE IdleCall

\* C29: a step of an invocation for one name leaves the store record and the
\* cache entry of every other name, and every other invocation, as they are,
\* and what the step yields is what it yields on a store and a cache that hold
\* nothing but its own name: operations on different names are independent.
C29_NamesIndependent ==
    [][\A p \in Procs :
         calls'[p] # calls[p] =>
           LET n == IF calls[p].pc = "idle" THEN calls'[p].req.Name ELSE calls[p].req.Name
           IN  /\ \A m \in TwoNames \ {n} :
                     /\ m \in DOMAIN store' <=> m \in DOMAIN store
                     /\ m \in DOMAIN store => store'[m] = store[m]
                     /\ m \in DOMAIN cache' <=> m \in DOMAIN cache
                     /\ m \in DOMAIN cache => cache'[m] = cache[m]
               /\ \A q \in Procs \ {p} : calls'[q] = calls[q]
               /\ calls'[p] = Outcome(calls[p], calls'[p], Only(store, n), Only(cache, n))
      ]_vars

\* both flags exist with different values, stored and cached, and the caller
\* of "b1" is in the middle of an update while the read of "a" has returned
C29_Witness ==
    /\ <<97>> \in DOMAIN store /\ <<98, 49>> \in DOMAIN store
    /\ <<97>> \in DOMAIN cache /\ <<98, 49>> \in DOMAIN cache
    /\ StoredValue(<<97>>) # StoredValue(<<98, 49>>)
    /\ cache[<<97>>] # cache[<<98, 49>>]
    /\ calls["p1"].op = "GetFlagValue" /\ calls["p1"].pc = "done"
    /\ calls["p1"].resp = <<cache[<<97>>]>>
    /\ calls["p2"].op = "UpdateFlagValue" /\ calls["p2"].pc = "cache.Set"

====
